---- MODULE Spec2Model ----
(***************************************************************************)
(* Model of src/server.py: the Tehran Stock Exchange tool server.          *)
(*                                                                         *)
(* Three tool handlers (search_stock, get_stock_info, get_stock_history)   *)
(* share one process-wide dictionary, STOCKS_CACHE.  Each handler is a     *)
(* coroutine that suspends exactly once, at `await make_request(url)`: the *)
(* code before the await and the code after it are each one atomic step.   *)
(*                                                                         *)
(* Python and JSON values are tagged tuples, so that truthiness, `.get`,   *)
(* slicing and the exceptions raised on values of the wrong type are       *)
(* computed as CPython computes them.  A Python str is a sequence of       *)
(* pieces: text that is stripped or looked up is held one character per    *)
(* piece, literal text of a format string is one piece.                    *)
(***************************************************************************)
EXTENDS Integers, Sequences, FiniteSets, TLC

VARIABLES
    STOCKS_CACHE,   \* the module-level dict: symbol -> instrument code
    task,           \* per invocation slot: the coroutine's locals while it awaits
    ret             \* the invocation that returned in the last step, if one did

vars == <<STOCKS_CACHE, task, ret>>

(***************************************************************************)
(* Python values                                                           *)
(***************************************************************************)
None == <<"none">>
Str(s) == <<"str", s>>
Num(n) == <<"num", n>>
\* a float rounded to two decimals, held as its number of hundredths
Float2(h) == <<"float2", h>>
\* a float that is not an integer (only its type matters where it is used)
Frac == <<"float", "x.5">>
List(xs) == <<"list", xs>>
Dict(f) == <<"dict", f>>
EmptyDict == Dict(<<>>)
EmptyList == List(<<>>)

Tag(v) == v[1]
IsDict(v) == Tag(v) = "dict"
IsList(v) == Tag(v) = "list"
IsStr(v) == Tag(v) = "str"
IsInt(v) == Tag(v) = "num"

\* bool(v)
Truthy(v) ==
    CASE Tag(v) = "none" -> FALSE
      [] Tag(v) = "str" -> v[2] # <<>>
      [] Tag(v) = "num" -> v[2] # 0
      [] Tag(v) = "float2" -> v[2] # 0
      [] Tag(v) = "float" -> TRUE
      [] Tag(v) = "list" -> v[2] # <<>>
      [] Tag(v) = "dict" -> DOMAIN v[2] # {}

\* d.get(k, default) on a dict d
Get(d, k, default) == IF k \in DOMAIN d[2] THEN d[2][k] ELSE default

\* list and str are sliceable and iterable; a slice of anything else raises
Sliceable(v) == IsList(v) \/ IsStr(v)
Min(a, b) == IF a <= b THEN a ELSE b
\* v[:n] as the sequence of the items a for loop would visit
SliceItems(v, n) ==
    IF IsList(v)
    THEN SubSeq(v[2], 1, Min(n, Len(v[2])))
    ELSE [i \in 1..Min(n, Len(v[2])) |-> Str(<<v[2][i]>>)]

\* a dict key must be hashable
Hashable(v) == ~(IsList(v) \/ IsDict(v))

Whitespace == {" ", "\t", "\n"}
RECURSIVE LStrip(_)
LStrip(s) == IF s # <<>> /\ Head(s) \in Whitespace THEN LStrip(Tail(s)) ELSE s
RECURSIVE RStrip(_)
RStrip(s) ==
    IF s # <<>> /\ s[Len(s)] \in Whitespace THEN RStrip(SubSeq(s, 1, Len(s) - 1)) ELSE s
\* str.strip()
Strip(s) == RStrip(LStrip(s))

\* the outcome of an expression that may raise
Returned(v) == [raised |-> FALSE, value |-> v]
Raised == [raised |-> TRUE, value |-> None]

(***************************************************************************)
(* Cache and envelope                                                      *)
(***************************************************************************)
is_cache_valid(cache, symbol) == symbol \in DOMAIN cache

\* mutant: the assignment rebinds the dict to the one new entry
update_cache_replacing(cache, symbol, instrument_code) ==
    [k \in {symbol} |-> instrument_code]

\* mutant: setdefault, an entry already there is kept
update_cache_keeping(cache, symbol, instrument_code) ==
    [k \in DOMAIN cache \cup {symbol} |->
        IF k \in DOMAIN cache THEN cache[k] ELSE instrument_code]

update_cache(cache, symbol, instrument_code) ==
    [k \in DOMAIN cache \cup {symbol} |->
        IF k = symbol THEN instrument_code ELSE cache[k]]

\* STOCKS_CACHE.get(symbol)
CacheGet(cache, symbol) == IF symbol \in DOMAIN cache THEN cache[symbol] ELSE None

\* mutant: a miss falls back on the symbol itself
CacheLookupOrSymbol(cache, symbol) ==
    IF symbol \in DOMAIN cache THEN cache[symbol] ELSE symbol

\* lines 115-117 and 199-201: instrument_code after the lookup
CacheLookup(cache, symbol) ==
    IF is_cache_valid(cache, symbol) THEN CacheGet(cache, symbol) ELSE None

return_message(is_success, data, message) ==
    IF message # <<>>
    THEN [isSuccess |-> is_success, data |-> data, message |-> message]
    ELSE [isSuccess |-> is_success, data |-> data]

(***************************************************************************)
(* HTTP fetcher.  An upstream reply is [fault, status, body]: fault is     *)
(* "network" when the GET itself raises, "json" when the body of a 200     *)
(* reply does not parse, "none" otherwise.                                 *)
(***************************************************************************)
StatusOK == 200
ErrorDict == Dict([error |-> Str(<<"Failed to fetch data">>)])

make_request(http) ==
    IF http.fault = "network" THEN Raised
    ELSE IF http.status # StatusOK THEN Returned(ErrorDict)
    ELSE IF http.fault = "json" THEN Raised
    ELSE Returned(http.body)

Reply(body) == [fault |-> "none", status |-> StatusOK, body |-> body]
NetworkError == [fault |-> "network", status |-> 0, body |-> None]
MalformedJson == [fault |-> "json", status |-> StatusOK, body |-> None]
ServerError == [fault |-> "none", status |-> 500, body |-> Dict([detail |-> Str(<<"down">>)])]

(***************************************************************************)
(* Invocation slots                                                        *)
(***************************************************************************)
NumTasks == 3
Tasks == 1..NumTasks

\* the arguments of an invocation, as the host passed them
Args(symbol, days) == [symbol |-> symbol, days |-> days]
NoArgs == Args(<<>>, None)

\* a slot holds the arguments and, while the coroutine awaits its fetch, its
\* locals symbol (query), days and instrument_code and the url it requested
Idle ==
    [pc |-> "idle", args |-> NoArgs, symbol |-> <<>>, days |-> 0,
     instrument_code |-> None, url |-> <<>>]
Awaiting(pc, args, symbol, days, code, url) ==
    [pc |-> pc, args |-> args, symbol |-> symbol, days |-> days,
     instrument_code |-> code, url |-> url]

\* what the host sees of a finished invocation: the envelope; and what the
\* invocation did: the upstream requests it made, what make_request gave it,
\* whether its except clause logged an error
Finished(op, args, envelope, requests, result, fault) ==
    [op |-> op, args |-> args, envelope |-> envelope, requests |-> requests,
     result |-> result, fault |-> fault]

NoCall == Finished("none", NoArgs, return_message(FALSE, EmptyList, <<>>), 0, Raised, FALSE)

(***************************************************************************)
(* search_stock                                                            *)
(***************************************************************************)
TopResults == 10
Unknown == <<"Unknown">>
SearchUrl(query) == <<"https://cdn.tsetmc.com/api/Instrument/GetInstrumentSearch/">> \o query

\* mutant: the code is not tested
ShouldCacheAnyCode(symbol, instrument_code) == Truthy(symbol)

\* line 91
ShouldCache(symbol, instrument_code) == Truthy(symbol) /\ Truthy(instrument_code)

\* lines 79-92: the loop over top_results, from item i on, with the cache and
\* the formatted results so far; a ticker that is no dict raises at .get, a
\* symbol that cannot be a dict key raises in update_cache
RECURSIVE FormatTickers(_, _, _, _)
FormatTickers(items, i, cache, formatted) ==
    IF i > Len(items)
    THEN [raised |-> FALSE, cache |-> cache, formatted |-> formatted]
    ELSE LET ticker == items[i] IN
         IF ~IsDict(ticker)
         THEN [raised |-> TRUE, cache |-> cache, formatted |-> formatted]
         ELSE LET stock_data == Dict([name |-> Get(ticker, "lVal30", Str(Unknown)),
                                      symbol |-> Get(ticker, "lVal18AFC", Str(Unknown)),
                                      market_name |-> Get(ticker, "flowTitle", Str(Unknown)),
                                      instrument_code |-> Get(ticker, "insCode", Str(<<>>))])
                  symbol == Get(ticker, "lVal18AFC", None)
                  instrument_code == Get(ticker, "insCode", None)
              IN IF ShouldCache(symbol, instrument_code)
                 THEN IF ~Hashable(symbol)
                      THEN [raised |-> TRUE, cache |-> cache,
                            formatted |-> Append(formatted, stock_data)]
                      ELSE FormatTickers(items, i + 1,
                                         update_cache(cache, symbol, instrument_code),
                                         Append(formatted, stock_data))
                 ELSE FormatTickers(items, i + 1, cache, Append(formatted, stock_data))

SearchFault == return_message(FALSE, EmptyList, <<"An unexpected error occurred while searching">>)

\* lines 69-101 after the await: [cache, envelope, fault]
SearchBody(query, fetched, cache) ==
    IF fetched.raised \/ ~IsDict(fetched.value)
    THEN [cache |-> cache, envelope |-> SearchFault, fault |-> TRUE]
    ELSE LET instruments == Get(fetched.value, "instrumentSearch", None) IN
         IF ~Truthy(instruments)
         THEN [cache |-> cache, fault |-> FALSE,
               envelope |-> return_message(FALSE,
                   Str(<<"No Tickers found. Make sure you used a correct query">>), <<>>)]
         ELSE IF ~Sliceable(instruments)
         THEN [cache |-> cache, envelope |-> SearchFault, fault |-> TRUE]
         ELSE LET loop == FormatTickers(SliceItems(instruments, TopResults), 1, cache, <<>>) IN
              IF loop.raised
              THEN [cache |-> loop.cache, envelope |-> SearchFault, fault |-> TRUE]
              ELSE [cache |-> loop.cache, fault |-> FALSE,
                    envelope |-> return_message(TRUE, List(loop.formatted),
                        <<"Found ", ToString(Len(loop.formatted)), " stocks matching '">>
                            \o query \o <<"'">>)]

\* lines 64-69: up to the await
search_stock(t, query) ==
    /\ task[t].pc = "idle"
    /\ LET q == Strip(query) IN
       task' = [task EXCEPT ![t] = Awaiting("search", Args(query, None), q, 0, None, SearchUrl(q))]
    /\ ret' = NoCall
    /\ UNCHANGED STOCKS_CACHE

\* lines 69-101: make_request returns or raises, the handler runs to its return
search_stock_resume(t, http) ==
    /\ task[t].pc = "search"
    /\ LET fetched == make_request(http)
           out == SearchBody(task[t].symbol, fetched, STOCKS_CACHE)
       IN /\ STOCKS_CACHE' = out.cache
          /\ ret' = Finished("search", task[t].args, out.envelope, 1, fetched, out.fault)
    /\ task' = [task EXCEPT ![t] = Idle]

(***************************************************************************)
(* get_stock_info                                                          *)
(***************************************************************************)
\* f"{v}" of a str or an int
Format(v) == IF IsStr(v) THEN v[2] ELSE <<ToString(v[2])>>

InfoUrl(instrument_code) ==
    <<"https://cdn.tsetmc.com/api/ClosingPrice/GetClosingPriceInfo/">> \o Format(instrument_code)

NotInCache(symbol) ==
    <<"Stock '">> \o symbol
        \o <<"' not found in cache. Please search for the stock first using search_stock tool.">>

InfoFault ==
    return_message(FALSE, EmptyDict, <<"An unexpected error occurred while fetching stock data">>)

Abs(n) == IF n < 0 THEN -n ELSE n
\* a / b rounded to the nearest integer, ties to even (b # 0)
RoundDiv(a, b) ==
    LET q == Abs(a) \div Abs(b)
        r == Abs(a) % Abs(b)
        m == IF 2 * r > Abs(b) \/ (2 * r = Abs(b) /\ q % 2 = 1) THEN q + 1 ELSE q
    IN IF (a < 0) = (b < 0) THEN m ELSE -m

\* round(x, 2) of the quotient num / den, as hundredths.  The double
\* arithmetic of CPython is taken as exact on the values used here.
Round2(num, den) == Float2(RoundDiv(100 * num, den))

Million == 1000000

\* lines 160-164: [raised, change, change_percent]
Change(current_price, yesterday_price) ==
    IF Truthy(current_price) /\ Truthy(yesterday_price)
    THEN IF ~(IsInt(current_price) /\ IsInt(yesterday_price))
         THEN [raised |-> TRUE, change |-> None, change_percent |-> None]
         ELSE LET change == current_price[2] - yesterday_price[2] IN
              [raised |-> FALSE, change |-> Num(change),
               change_percent |-> IF yesterday_price[2] # 0
                                  THEN Round2(change * 100, yesterday_price[2])
                                  ELSE Num(0)]
    ELSE [raised |-> FALSE, change |-> None, change_percent |-> None]

\* lines 166-168: [raised, value]
TotalValueMillions(total_value) ==
    IF Truthy(total_value)
    THEN IF IsInt(total_value) THEN Returned(Round2(total_value[2], Million)) ELSE Raised
    ELSE Returned(None)

\* datetime.now().isoformat(): the clock is not modelled
Timestamp == Str(<<"now">>)

\* lines 128-173 after the await: [envelope, fault]
InfoBody(symbol, instrument_code, fetched) ==
    IF fetched.raised \/ ~IsDict(fetched.value)
    THEN [envelope |-> InfoFault, fault |-> TRUE]
    ELSE LET closing_price == Get(fetched.value, "closingPriceInfo", None) IN
         IF ~Truthy(closing_price)
         THEN [fault |-> FALSE,
               envelope |-> return_message(FALSE, EmptyDict,
                   <<"No trading data found for '">> \o symbol \o <<"'">>)]
         ELSE IF ~IsDict(closing_price)
         THEN [envelope |-> InfoFault, fault |-> TRUE]
         ELSE LET current_price == Get(closing_price, "pDrCotVal", None)
                  yesterday_price == Get(closing_price, "priceYesterday", None)
                  total_value == Get(closing_price, "qTotCap", None)
                  derived == Change(current_price, yesterday_price)
                  millions == TotalValueMillions(total_value)
                  stock_info == Dict([
                      symbol |-> Str(symbol),
                      instrument_code |-> instrument_code,
                      date |-> Get(closing_price, "dEven", None),
                      trading_data |-> Dict([
                          open |-> Get(closing_price, "price_first", None),
                          close |-> current_price,
                          high |-> Get(closing_price, "priceMax", None),
                          low |-> Get(closing_price, "priceMin", None),
                          last |-> Get(closing_price, "last", None),
                          yesterday_price |-> yesterday_price,
                          change |-> derived.change,
                          change_percent |-> derived.change_percent]),
                      volume_data |-> Dict([
                          total_transactions |-> Get(closing_price, "zTotTran", None),
                          total_volume |-> Get(closing_price, "qTotTran5J", None),
                          total_value_rial |-> total_value,
                          total_value_millions |-> millions.value]),
                      timestamp |-> Timestamp])
              IN IF derived.raised \/ millions.raised
                 THEN [envelope |-> InfoFault, fault |-> TRUE]
                 ELSE [fault |-> FALSE,
                       envelope |-> return_message(TRUE, stock_info,
                           <<"Successfully retrieved data for ">> \o symbol)]

\* lines 112-128: up to the await, or to the return of a cache miss
get_stock_info(t, symbol_arg) ==
    /\ task[t].pc = "idle"
    /\ LET symbol == Strip(symbol_arg)
           instrument_code == CacheLookup(STOCKS_CACHE, Str(symbol))
       IN IF ~Truthy(instrument_code)
          THEN /\ ret' = Finished("info", Args(symbol_arg, None),
                             return_message(FALSE, EmptyDict, NotInCache(symbol)),
                             0, Raised, FALSE)
               /\ task' = task
          ELSE /\ task' = [task EXCEPT ![t] =
                             Awaiting("info", Args(symbol_arg, None), symbol, 0, instrument_code,
                                      InfoUrl(instrument_code))]
               /\ ret' = NoCall
    /\ UNCHANGED STOCKS_CACHE

\* lines 128-173
get_stock_info_resume(t, http) ==
    /\ task[t].pc = "info"
    /\ LET fetched == make_request(http)
           out == InfoBody(task[t].symbol, task[t].instrument_code, fetched)
       IN ret' = Finished("info", task[t].args, out.envelope, 1, fetched, out.fault)
    /\ task' = [task EXCEPT ![t] = Idle]
    /\ UNCHANGED STOCKS_CACHE

(***************************************************************************)
(* get_stock_history                                                       *)
(***************************************************************************)
DefaultDays == 30
MaxDays == 365

HistoryUrl(instrument_code) ==
    <<"https://cdn.tsetmc.com/api/ClosingPrice/GetClosingPriceDailyList/">>
        \o Format(instrument_code) \o <<"/0">>

\* mutant: the except clause reports success
HistoryFaultAsSuccess ==
    return_message(TRUE, EmptyList,
                   <<"An unexpected error occurred while fetching historical data">>)

HistoryFault ==
    return_message(FALSE, EmptyList,
                   <<"An unexpected error occurred while fetching historical data">>)

\* mutant: 0 days is let through
ClampDaysFromZero(days) ==
    IF ~IsInt(days) \/ days[2] < 0 THEN DefaultDays
    ELSE IF days[2] > MaxDays THEN MaxDays
    ELSE days[2]

\* lines 193-196
ClampDays(days) ==
    IF ~IsInt(days) \/ days[2] < 1 THEN DefaultDays
    ELSE IF days[2] > MaxDays THEN MaxDays
    ELSE days[2]

\* the sort key of line 219
DateKey(day) == Get(day, "dEven", Str(<<>>))

Digits == <<"0", "1", "2", "3", "4", "5", "6", "7", "8", "9">>
Ord(c) == CHOOSE i \in 1..Len(Digits) : Digits[i] = c
\* a < b for two str of digits
RECURSIVE StrLess(_, _)
StrLess(a, b) ==
    IF b = <<>> THEN FALSE
    ELSE IF a = <<>> THEN TRUE
    ELSE IF Head(a) = Head(b) THEN StrLess(Tail(a), Tail(b))
    ELSE Ord(Head(a)) < Ord(Head(b))

\* a < b for two keys of one type
KeyLess(a, b) == IF IsInt(a) THEN a[2] < b[2] ELSE StrLess(a[2], b[2])

\* list.sort raises when the key function raises (an entry that is no dict)
\* or when it has to compare two keys that have no order: `<` is defined
\* between two int and between two str, and sorting two or more items
\* compares every key with some other
SortRaises(xs) ==
    \/ \E i \in 1..Len(xs) : ~IsDict(xs[i])
    \/ /\ Len(xs) >= 2
       /\ ~(\A i \in 1..Len(xs) : IsInt(DateKey(xs[i])))
       /\ ~(\A i \in 1..Len(xs) : IsStr(DateKey(xs[i])))

\* merge of two runs sorted by key descending; on equal keys the items of the
\* left run, which came first, stay first.  The middle item of the left run
\* goes after the items of the right run with a greater key.
RECURSIVE MergeDesc(_, _)
MergeDesc(a, b) ==
    IF a = <<>> THEN b
    ELSE IF b = <<>> THEN a
    ELSE LET m == (Len(a) + 1) \div 2
             c == Cardinality({j \in 1..Len(b) : KeyLess(DateKey(a[m]), DateKey(b[j]))})
         IN MergeDesc(SubSeq(a, 1, m - 1), SubSeq(b, 1, c))
                \o <<a[m]>>
                \o MergeDesc(SubSeq(a, m + 1, Len(a)), SubSeq(b, c + 1, Len(b)))

\* mutant: the list is left in upstream's order
Unsorted(xs) == xs

\* xs.sort(key=..., reverse=True): a stable merge sort
RECURSIVE SortDesc(_)
SortDesc(xs) ==
    IF Len(xs) <= 1 THEN xs
    ELSE LET h == Len(xs) \div 2 IN
         MergeDesc(SortDesc(SubSeq(xs, 1, h)), SortDesc(SubSeq(xs, h + 1, Len(xs))))

\* lines 224-233
FormatDay(day) ==
    Dict([date |-> Get(day, "dEven", None),
          open |-> Get(day, "price_first", None),
          high |-> Get(day, "priceMax", None),
          low |-> Get(day, "priceMin", None),
          close |-> Get(day, "last", None),
          volume |-> Get(day, "qTotTran5J", None),
          value |-> Get(day, "qTotCap", None),
          transactions |-> Get(day, "zTotTran", None)])

\* lines 213-246 after the await: [envelope, fault]
HistoryBody(symbol, days, fetched) ==
    IF fetched.raised \/ ~IsDict(fetched.value)
    THEN [envelope |-> HistoryFault, fault |-> TRUE]
    ELSE LET daily_data == Get(fetched.value, "closingPriceDaily", EmptyList) IN
         IF ~Truthy(daily_data)
         THEN [fault |-> FALSE,
               envelope |-> return_message(FALSE, EmptyList,
                   <<"No historical data found for '">> \o symbol \o <<"'">>)]
         ELSE IF ~IsList(daily_data) \/ SortRaises(daily_data[2])
         THEN [envelope |-> HistoryFault, fault |-> TRUE]
         ELSE LET sorted == SortDesc(daily_data[2])
                  recent_data == SubSeq(sorted, 1, Min(days, Len(sorted)))
                  formatted_history == [i \in 1..Len(recent_data) |-> FormatDay(recent_data[i])]
              IN [fault |-> FALSE,
                  envelope |-> return_message(TRUE, List(formatted_history),
                      <<"Retrieved ", ToString(Len(formatted_history)),
                        " days of historical data for ">> \o symbol)]

\* lines 188-213: up to the await, or to an early return
get_stock_history(t, symbol_arg, days_arg) ==
    /\ task[t].pc = "idle"
    /\ IF symbol_arg = <<>> \/ Strip(symbol_arg) = <<>>
       THEN /\ ret' = Finished("history", Args(symbol_arg, days_arg),
                          return_message(FALSE, EmptyList, <<"Symbol cannot be empty">>),
                          0, Raised, FALSE)
            /\ task' = task
       ELSE LET symbol == Strip(symbol_arg)
                days == ClampDays(days_arg)
                instrument_code == CacheLookup(STOCKS_CACHE, Str(symbol))
            IN IF ~Truthy(instrument_code)
               THEN /\ ret' = Finished("history", Args(symbol_arg, days_arg),
                                  return_message(FALSE, EmptyList, NotInCache(symbol)),
                                  0, Raised, FALSE)
                    /\ task' = task
               ELSE /\ task' = [task EXCEPT ![t] =
                                  Awaiting("history", Args(symbol_arg, days_arg), symbol, days,
                                           instrument_code,
                                           HistoryUrl(instrument_code))]
                    /\ ret' = NoCall
    /\ UNCHANGED STOCKS_CACHE

\* lines 213-246
get_stock_history_resume(t, http) ==
    /\ task[t].pc = "history"
    /\ LET fetched == make_request(http)
           out == HistoryBody(task[t].symbol, task[t].days, fetched)
       IN ret' = Finished("history", task[t].args, out.envelope, 1, fetched, out.fault)
    /\ task' = [task EXCEPT ![t] = Idle]
    /\ UNCHANGED STOCKS_CACHE

(***************************************************************************)
(* Upstream replies and tool arguments                                     *)
(***************************************************************************)
A == <<"A">>
B == <<"B">>

Ticker(symbol, code) == Dict([lVal18AFC |-> Str(symbol), insCode |-> Str(code)])
SearchReply(tickers) == Reply(Dict([instrumentSearch |-> List(tickers)]))

ClosingReply(close, yesterday, total) ==
    Reply(Dict([closingPriceInfo |->
        Dict([dEven |-> Num(20240101), price_first |-> Num(1000), pDrCotVal |-> close,
              priceYesterday |-> yesterday, qTotCap |-> total])]))

Day(date, last) == Dict([dEven |-> date, last |-> Num(last)])
DailyReply(days) == Reply(Dict([closingPriceDaily |-> List(days)]))

\* --- concurrent invocations, a few replies each
Queries == {<<" ", "A">>}
SearchReplies ==
    {SearchReply(<<Ticker(A, <<"1">>)>>),
     SearchReply(<<Ticker(A, <<"2">>)>>),
     SearchReply(<<Ticker(B, <<"3">>), Ticker(A, <<"1">>)>>),
     SearchReply(<<Ticker(A, <<"1">>), Ticker(A, <<"2">>)>>),
     SearchReply(<<Ticker(A, <<"2">>), Num(7)>>),
     SearchReply(<<>>),
     NetworkError}
InfoSymbols == {A, <<"B", " ">>}
InfoReplies == {ClosingReply(Num(1050), Num(1000), None), ServerError}
HistorySymbols == {A}
HistoryDays == {Num(1)}
HistoryReplies == {DailyReply(<<Day(Num(1), 10), Day(Num(2), 20)>>), MalformedJson}

Init ==
    /\ STOCKS_CACHE = <<>>
    /\ task = [t \in Tasks |-> Idle]
    /\ ret = NoCall

Next ==
    \E t \in Tasks :
        \/ \E query \in Queries : search_stock(t, query)
        \/ \E http \in SearchReplies : search_stock_resume(t, http)
        \/ \E symbol \in InfoSymbols : get_stock_info(t, symbol)
        \/ \E http \in InfoReplies : get_stock_info_resume(t, http)
        \/ \E symbol \in HistorySymbols, days \in HistoryDays :
               get_stock_history(t, symbol, days)
        \/ \E http \in HistoryReplies : get_stock_history_resume(t, http)

Spec == Init /\ [][Next]_vars

(***************************************************************************)
(* One caller at a time, every shape of reply                              *)
(***************************************************************************)
MaxTickers == 2
MaxDaily == 2
LongHistory == 400

RECURSIVE SeqsUpTo(_, _)
\* the sequences over S of length at most n
SeqsUpTo(S, n) ==
    IF n = 0 THEN {<<>>}
    ELSE LET shorter == SeqsUpTo(S, n - 1) IN
         shorter \cup {Append(x, e) : x \in shorter, e \in S}

TickerShapes ==
    {Dict([lVal30 |-> Str(<<"Name">>), lVal18AFC |-> Str(A),
           flowTitle |-> Str(<<"Market">>), insCode |-> Str(<<"1">>)]),
     Ticker(A, <<"2">>),
     Ticker(B, <<"1">>),
     Dict([insCode |-> Str(<<"2">>)]),                         \* no symbol
     Dict([lVal18AFC |-> Str(B)]),                             \* no code
     Ticker(A, <<>>),                                          \* empty code
     Dict([lVal18AFC |-> None, insCode |-> Str(<<"2">>)]),     \* null symbol
     Dict([lVal18AFC |-> List(<<Str(B)>>), insCode |-> Str(<<"1">>)]),
     Num(7)}                                                   \* not a dict

\* more instruments than search_stock returns, each with its own symbol
ManyTickers ==
    [i \in 1..(TopResults + 2) |-> Ticker(<<"S", ToString(i)>>, <<ToString(i)>>)]

SeqQueries == {A, <<" ", "A", "\t">>}
SeqSearchReplies ==
    {SearchReply(tickers) : tickers \in SeqsUpTo(TickerShapes, MaxTickers)}
        \cup {SearchReply(ManyTickers),
              Reply(Dict([other |-> Num(1)])),                  \* no instrumentSearch
              Reply(Dict([instrumentSearch |-> None])),
              Reply(Dict([instrumentSearch |-> Num(7)])),
              Reply(Dict([instrumentSearch |-> Str(A)])),
              Reply(List(<<Ticker(A, <<"1">>)>>)),              \* the body is no dict
              ServerError, NetworkError, MalformedJson}

SeqSymbols == {A, B, <<" ", "A">>, <<" ">>, <<>>}

Prices == {None, Num(0), Num(1050), Num(1000), Str(<<"1050">>)}
SeqInfoReplies ==
    {ClosingReply(close, yesterday, total) :
        close \in Prices, yesterday \in Prices \ {Num(1050)},
        total \in {None, Num(0), Num(2500000)}}
        \cup {ClosingReply(Num(1050), Num(1000), Str(<<"much">>)),
              Reply(Dict([other |-> Num(1)])),                  \* no closingPriceInfo
              Reply(Dict([closingPriceInfo |-> Dict(<<>>)])),
              Reply(Dict([closingPriceInfo |-> List(<<Num(1)>>)])),
              Reply(Dict([closingPriceInfo |-> Dict([last |-> Num(5)])])),
              Reply(None),
              ServerError, NetworkError, MalformedJson}

SeqDays ==
    {Num(-1), Num(0), Num(1), Num(2), Num(MaxDays), Num(MaxDays + 1), Num(500), Frac}

DayShapes ==
    {Day(Num(1), 10), Day(Num(2), 20), Day(Num(2), 21),
     Dict([last |-> Num(5)]),                                  \* no dEven
     Day(Str(<<"2">>), 30),
     Day(None, 40),
     Num(3)}                                                   \* not a dict

\* a long history, oldest day first
LongDaily == [i \in 1..LongHistory |-> Day(Num(i), i)]

SeqHistoryReplies ==
    {DailyReply(days) : days \in SeqsUpTo(DayShapes, MaxDaily)}
        \cup {DailyReply(LongDaily),
              Reply(Dict([other |-> Num(1)])),                  \* no closingPriceDaily
              Reply(Dict([closingPriceDaily |-> None])),
              Reply(Dict([closingPriceDaily |-> Dict([a |-> Num(1)])])),
              Reply(List(<<>>)),
              ServerError, NetworkError, MalformedJson}

\* the slot of the one caller
Caller == CHOOSE t \in Tasks : \A u \in Tasks : t <= u

NextSeq ==
    \/ \E query \in SeqQueries : search_stock(Caller, query)
    \/ \E http \in SeqSearchReplies : search_stock_resume(Caller, http)
    \/ \E symbol \in SeqSymbols : get_stock_info(Caller, symbol)
    \/ \E http \in SeqInfoReplies : get_stock_info_resume(Caller, http)
    \/ \E symbol \in SeqSymbols, days \in SeqDays : get_stock_history(Caller, symbol, days)
    \/ \E http \in SeqHistoryReplies : get_stock_history_resume(Caller, http)

SpecSeq == Init /\ [][NextSeq]_vars

(***************************************************************************)
(* Properties                                                              *)
(***************************************************************************)
Success == ret.envelope.isSuccess
HasMessage == "message" \in DOMAIN ret.envelope

\* the invocation returned at once, without success, having made no upstream
\* request and leaving none in flight
ReturnedMiss(op) ==
    /\ ret.op = op
    /\ ~Success
    /\ ret.requests = 0
    /\ task[Caller].pc = "idle"

\* the arguments of the invocation that the step starts, returned or not
Called == IF task'[Caller].pc = "idle" THEN ret'.args ELSE task'[Caller].args

\* the step, if it is a call of get_stock_info or get_stock_history with the
\* arguments `called`, returns a miss
CallMisses(called) ==
    /\ get_stock_info(Caller, called.symbol) => ReturnedMiss("info")'
    /\ called.days \in SeqDays =>
           (get_stock_history(Caller, called.symbol, called.days) => ReturnedMiss("history")')

\* C1 as stated: for every symbol that is not a key of the cache when the tool
\* is called, get_stock_info and get_stock_history return isSuccess=false and
\* make no upstream request.
C1_MissOnAbsentKey ==
    [][(task[Caller].pc = "idle" /\ Str(Called.symbol) \notin DOMAIN STOCKS_CACHE)
           => CallMisses(Called)]_vars

\* C1 (amended): for every symbol whose value with the surrounding whitespace
\* stripped is not a key of the cache when the tool is called, get_stock_info
\* and get_stock_history return isSuccess=false and make no upstream request.
C1_MissOnAbsentStrippedKey ==
    [][(task[Caller].pc = "idle" /\ Str(Strip(Called.symbol)) \notin DOMAIN STOCKS_CACHE)
           => CallMisses(Called)]_vars

\* a lookup of B missed while the cache held other symbols
C1_Witness ==
    /\ ReturnedMiss("history")
    /\ ret.args.symbol = B
    /\ Str(B) \notin DOMAIN STOCKS_CACHE
    /\ DOMAIN STOCKS_CACHE # {}
    /\ HasMessage
    /\ ret.envelope.message = NotInCache(B)

HistoryReturned == ret.op = "history" /\ Success
\* the daily list upstream sent and the entries returned
Upstream == Get(ret.result.value, "closingPriceDaily", EmptyList)[2]
Entries == ret.envelope.data[2]

\* the window the claims give for a days argument
Window(d) ==
    IF ~IsInt(d) THEN 30
    ELSE IF d[2] <= 0 THEN 30
    ELSE IF d[2] > 365 THEN 365
    ELSE d[2]

\* C6: the window that truncates the history is 30 when days <= 0 or is no
\* integer, 365 when days > 365, and days itself for an integer in 1..365:
\* the coroutine holds that window while it awaits the fetch, and a history
\* that succeeds has as many entries as the window allows of the upstream list.
C6_EffectiveWindow ==
    /\ task[Caller].pc = "history" => task[Caller].days = Window(task[Caller].args.days)
    /\ HistoryReturned => Len(Entries) = Min(Window(ret.args.days), Len(Upstream))

\* 500 days asked of a history of more than 365: 365 returned
C6_Witness ==
    /\ HistoryReturned
    /\ ret.args.days = Num(500)
    /\ Len(Upstream) > 365
    /\ Len(Entries) = 365

\* the date an entry is ordered by
EntryKey(e) == IF Get(e, "date", None) = None THEN Str(<<>>) ELSE Get(e, "date", None)
\* the date of an upstream day, read as the date of the entry made of it
UpstreamKey(day) ==
    IF Get(day, "dEven", None) = None THEN Str(<<>>) ELSE Get(day, "dEven", None)
Older(a, b) == IF IsInt(a) /\ IsInt(b) THEN a[2] < b[2] ELSE StrLess(a[2], b[2])

DateDescending == \A i \in 1..(Len(Entries) - 1) : ~Older(EntryKey(Entries[i]), EntryKey(Entries[i + 1]))

\* every entry is an upstream day, as often at most as upstream holds it;
\* every upstream day more recent than the oldest entry is among the entries;
\* days are left out only when `limit` entries are returned
MostRecent(limit) ==
    LET oldest == EntryKey(Entries[Len(Entries)]) IN
    /\ \A j \in 1..Len(Entries) :
           LET e == Entries[j]
               same == {i \in 1..Len(Entries) :
                           EntryKey(Entries[i]) = EntryKey(e) /\ Entries[i] = e}
               from == {i \in 1..Len(Upstream) :
                           UpstreamKey(Upstream[i]) = EntryKey(e) /\ FormatDay(Upstream[i]) = e}
           IN Cardinality(same) <= Cardinality(from)
    /\ Cardinality({i \in 1..Len(Upstream) : Older(oldest, UpstreamKey(Upstream[i]))})
           = Cardinality({j \in 1..Len(Entries) : Older(oldest, EntryKey(Entries[j]))})
    /\ Len(Entries) < limit => Len(Entries) = Len(Upstream)

\* C3 as stated: a history that succeeds has at most min(days, 365) entries,
\* ordered by date descending, the most recent of the upstream list.
C3_AtMostMinDays ==
    (HistoryReturned /\ IsInt(ret.args.days)) =>
        /\ Len(Entries) <= Min(ret.args.days[2], 365)
        /\ DateDescending
        /\ MostRecent(Min(ret.args.days[2], 365))

\* C3 (amended): a history that succeeds has at most min(days, 365) entries
\* when days is an integer >= 1 and at most 30 otherwise, ordered by date
\* descending, the most recent of the upstream list.
C3_AtMostWindow ==
    HistoryReturned =>
        LET limit == IF IsInt(ret.args.days) /\ ret.args.days[2] >= 1
                     THEN Min(ret.args.days[2], 365)
                     ELSE 30
        IN /\ Len(Entries) <= limit
           /\ DateDescending
           /\ MostRecent(limit)

\* 400 upstream days, oldest first, and days=500: 365 entries, the latest first
C3_Witness ==
    /\ HistoryReturned
    /\ ret.args.days = Num(500)
    /\ Len(Upstream) = LongHistory
    /\ Len(Entries) = 365
    /\ Get(Entries[1], "date", None) = Num(LongHistory)
    /\ Get(Entries[365], "date", None) = Num(LongHistory - 364)

\* --- get_stock_info: the derived fields

InfoReturned == ret.op = "info" /\ ret.requests = 1
\* the closingPriceInfo record upstream sent, when it sent one
ClosingSent ==
    /\ InfoReturned
    /\ ~ret.result.raised
    /\ IsDict(ret.result.value)
    /\ IsDict(Get(ret.result.value, "closingPriceInfo", None))
Closing == Get(ret.result.value, "closingPriceInfo", None)
Sent(field) == Get(Closing, field, None)
\* the record holds nothing the handler cannot compute with
WellTyped ==
    /\ Sent("pDrCotVal") = None \/ IsInt(Sent("pDrCotVal"))
    /\ Sent("priceYesterday") = None \/ IsInt(Sent("priceYesterday"))
    /\ Sent("qTotCap") = None \/ IsInt(Sent("qTotCap"))
Trading(field) == Get(Get(ret.envelope.data, "trading_data", None), field, None)

\* C4: for a cached symbol whose closing-price record has priceYesterday = 0
\* (and a closing price that is not 0), get_stock_info succeeds with
\* change_percent 0.
C4_ZeroYesterdayGivesZeroPercent ==
    (ClosingSent /\ WellTyped /\ IsInt(Sent("pDrCotVal")) /\ Sent("pDrCotVal") # Num(0)
        /\ Sent("priceYesterday") = Num(0)) =>
        /\ Success
        /\ Trading("change_percent") \in {Num(0), Float2(0)}

\* C5: for a cached symbol, change is close - yesterday whenever close and
\* yesterday are both present and yesterday is not 0, also when close is 0;
\* close 1050 and yesterday 1000 give change 50 and change_percent 5.0.
C5_ChangeWheneverPresent ==
    (ClosingSent /\ WellTyped /\ IsInt(Sent("pDrCotVal")) /\ IsInt(Sent("priceYesterday"))
        /\ Sent("priceYesterday") # Num(0)) =>
        /\ Success
        /\ Trading("change") = Num(Sent("pDrCotVal")[2] - Sent("priceYesterday")[2])
        /\ (Sent("pDrCotVal") = Num(1050) /\ Sent("priceYesterday") = Num(1000)) =>
               Trading("change_percent") = Float2(500)

\* --- the envelopes of the expected and the unexpected failures

SearchReturned == ret.op = "search"
BodySent == ret.requests = 1 /\ ~ret.result.raised /\ IsDict(ret.result.value)
\* nothing to report: no instrument, a symbol that is not cached, no history
NoData ==
    \/ SearchReturned /\ BodySent /\ ~Truthy(Get(ret.result.value, "instrumentSearch", None))
    \/ ret.op \in {"info", "history"} /\ ret.requests = 0
    \/ ret.op = "history" /\ BodySent
           /\ ~Truthy(Get(ret.result.value, "closingPriceDaily", EmptyList))
Guidance ==
    {<<"No Tickers found. Make sure you used a correct query">>,
     <<"Symbol cannot be empty">>,
     NotInCache(Strip(ret.args.symbol)),
     <<"No historical data found for '">> \o Strip(ret.args.symbol) \o <<"'">>}

\* C7: each expected no-data outcome returns isSuccess=false with the guidance
\* text in the message field, never in data alone.
C7_GuidanceInMessage ==
    NoData =>
        /\ ~Success
        /\ HasMessage
        /\ ret.envelope.message \in Guidance

\* the reply is one the handler cannot work through: the fetch raised, the
\* body is no JSON object, or a value the handler has to index, iterate,
\* subtract, divide or order has a type that does not allow it
Unworkable ==
    \/ ret.result.raised
    \/ ~IsDict(ret.result.value)
    \/ /\ ret.op = "search"
       /\ LET instruments == Get(ret.result.value, "instrumentSearch", None) IN
          /\ Truthy(instruments)
          /\ \/ ~(IsList(instruments) \/ IsStr(instruments))
             \/ IsStr(instruments)
             \/ \E i \in 1..Min(10, Len(instruments[2])) :
                    LET ticker == instruments[2][i] IN
                    \/ ~IsDict(ticker)
                    \/ /\ Truthy(Get(ticker, "lVal18AFC", None))
                       /\ Truthy(Get(ticker, "insCode", None))
                       /\ Tag(Get(ticker, "lVal18AFC", None)) \in {"list", "dict"}
    \/ /\ ret.op = "info"
       /\ LET closing == Get(ret.result.value, "closingPriceInfo", None) IN
          /\ Truthy(closing)
          /\ \/ ~IsDict(closing)
             \/ /\ Truthy(Get(closing, "pDrCotVal", None))
                /\ Truthy(Get(closing, "priceYesterday", None))
                /\ ~(IsInt(Get(closing, "pDrCotVal", None))
                       /\ IsInt(Get(closing, "priceYesterday", None)))
             \/ /\ Truthy(Get(closing, "qTotCap", None))
                /\ ~IsInt(Get(closing, "qTotCap", None))
    \/ /\ ret.op = "history"
       /\ LET daily == Get(ret.result.value, "closingPriceDaily", EmptyList) IN
          /\ Truthy(daily)
          /\ \/ ~IsList(daily)
             \/ \E i \in 1..Len(daily[2]) : ~IsDict(daily[2][i])
             \/ /\ Len(daily[2]) >= 2
                /\ {Tag(Get(daily[2][i], "dEven", Str(<<>>))) : i \in 1..Len(daily[2])}
                       \notin {{"num"}, {"str"}}

GenericMessage ==
    CASE ret.op = "search" -> <<"An unexpected error occurred while searching">>
      [] ret.op = "info" -> <<"An unexpected error occurred while fetching stock data">>
      [] ret.op = "history" -> <<"An unexpected error occurred while fetching historical data">>

SearchEnds(t) == task[t].pc = "search" /\ task'[t].pc = "idle"
\* the instruments of a reply that holds a non-empty list of them
Instruments(result) == Get(result.value, "instrumentSearch", None)
HasInstruments(result) ==
    /\ ~result.raised
    /\ IsDict(result.value)
    /\ IsList(Instruments(result))
    /\ Len(Instruments(result)[2]) >= 1
FirstTen(result) ==
    SubSeq(Instruments(result)[2], 1, Min(10, Len(Instruments(result)[2])))
SymbolOf(ticker) == Get(ticker, "lVal18AFC", None)
CodeOf(ticker) == Get(ticker, "insCode", None)
\* an instrument with a symbol and a code, neither empty
Complete(ticker) == IsDict(ticker) /\ Truthy(SymbolOf(ticker)) /\ Truthy(CodeOf(ticker))
\* an instrument the loop stops at
Malformed(ticker) ==
    \/ ~IsDict(ticker)
    \/ Complete(ticker) /\ Tag(SymbolOf(ticker)) \in {"list", "dict"}
\* the instruments the loop gets through
Read(result) ==
    LET top == FirstTen(result)
        bad == {i \in 1..Len(top) : Malformed(top[i])}
        stop == IF bad = {} THEN Len(top) + 1 ELSE CHOOSE i \in bad : \A j \in bad : i <= j
    IN SubSeq(top, 1, stop - 1)
\* the symbols a reply supplies a code for
Supplied(result) ==
    {SymbolOf(Read(result)[i]) : i \in {j \in 1..Len(Read(result)) : Complete(Read(result)[j])}}
\* the code the last instrument with that symbol supplies
LastCode(result, k) ==
    LET is == {i \in 1..Len(Read(result)) :
                  Complete(Read(result)[i]) /\ SymbolOf(Read(result)[i]) = k}
    IN CodeOf(Read(result)[CHOOSE i \in is : \A j \in is : j <= i])
ReturnedSymbols(envelope) ==
    {Get(envelope.data[2][j], "symbol", None) : j \in 1..Len(envelope.data[2])}
\* the keys whose entry the step adds or changes
Changed ==
    {k \in DOMAIN STOCKS_CACHE' : k \notin DOMAIN STOCKS_CACHE \/ STOCKS_CACHE'[k] # STOCKS_CACHE[k]}

\* C2 as stated: a search whose reply holds at least one instrument returns at
\* most 10 entries, every returned symbol is cached with its instrument_code,
\* and no symbol outside the returned list is cached by the call.
C2_CachesExactlyReturned ==
    [][(SearchEnds(Caller) /\ HasInstruments(ret'.result)) =>
          /\ IsList(ret'.envelope.data)
          /\ Len(ret'.envelope.data[2]) <= 10
          /\ \A j \in 1..Len(ret'.envelope.data[2]) :
                 LET e == ret'.envelope.data[2][j] IN
                 /\ Get(e, "symbol", None) \in DOMAIN STOCKS_CACHE'
                 /\ STOCKS_CACHE'[Get(e, "symbol", None)] = Get(e, "instrument_code", None)
          /\ Changed \subseteq ReturnedSymbols(ret'.envelope)
      ]_vars

\* C2 (amended): a search whose reply holds at least one instrument returns at
\* most 10 entries, and the cache keys the call writes are exactly the symbols
\* of the instruments, among the first 10 and before any malformed one, whose
\* lVal18AFC and insCode are both present and not empty, each with its
\* insCode; when the call succeeds it returns one entry for each of the first
\* 10 instruments, the written symbols among them, and the entries without a
\* symbol or a code are not cached.
C2_CachesCompleteReturned ==
    [][(SearchEnds(Caller) /\ HasInstruments(ret'.result)) =>
          LET result == ret'.result
              data == ret'.envelope.data
          IN /\ IsList(data)
             /\ Len(data[2]) <= 10
             /\ \A k \in Supplied(result) :
                    k \in DOMAIN STOCKS_CACHE' /\ STOCKS_CACHE'[k] = LastCode(result, k)
             /\ Changed \subseteq Supplied(result)
             /\ DOMAIN STOCKS_CACHE \subseteq DOMAIN STOCKS_CACHE'
             /\ ret'.envelope.isSuccess =>
                    /\ Len(data[2]) = Len(FirstTen(result))
                    /\ Read(result) = FirstTen(result)
                    /\ Supplied(result) \subseteq ReturnedSymbols(ret'.envelope)
                    /\ \A j \in 1..Len(data[2]) :
                           ~Complete(FirstTen(result)[j]) =>
                               /\ Get(data[2][j], "symbol", None)
                                      = Get(FirstTen(result)[j], "lVal18AFC", Str(Unknown))
                               /\ Get(data[2][j], "instrument_code", None)
                                      = Get(FirstTen(result)[j], "insCode", Str(<<>>))
      ]_vars

\* a search returned A, which it cached, and B without a code, which it did not
C2_Witness ==
    /\ SearchReturned
    /\ Success
    /\ Len(ret.envelope.data[2]) = 2
    /\ ReturnedSymbols(ret.envelope) = {Str(A), Str(B)}
    /\ DOMAIN STOCKS_CACHE = {Str(A)}

\* C9: only search_stock changes the cache: a step that changes it ends a
\* search_stock invocation; a step in which get_stock_info or
\* get_stock_history returns, or suspends at its fetch, leaves the cache as
\* it was; so does a search that fails for want of instruments, on a status
\* other than 200 or on a fault raised before it reads the results; and no
\* step removes a key.
C9_OnlySearchWrites ==
    [][/\ STOCKS_CACHE' # STOCKS_CACHE => \E t \in Tasks : SearchEnds(t) /\ ret'.op = "search"
       /\ \A t \in Tasks :
              (SearchEnds(t) /\ ~HasInstruments(ret'.result)) => STOCKS_CACHE' = STOCKS_CACHE
       /\ ret'.op \in {"info", "history"} => STOCKS_CACHE' = STOCKS_CACHE
       /\ \A t \in Tasks :
              (task[t].pc = "idle" /\ task'[t].pc \in {"info", "history"})
                  => STOCKS_CACHE' = STOCKS_CACHE
       /\ \A k \in DOMAIN STOCKS_CACHE : is_cache_valid(STOCKS_CACHE', k)
      ]_vars

\* a search failed on a raised fetch while the cache held symbols
C9_Witness ==
    /\ SearchReturned
    /\ ret.result.raised
    /\ ~Success
    /\ Cardinality(DOMAIN STOCKS_CACHE) >= 2

\* --- concurrent invocations

\* some instrument of the reply pairs symbol k with that code
Pairs(result, k, code) ==
    /\ HasInstruments(result)
    /\ \E i \in 1..Len(Instruments(result)[2]) :
           LET ticker == Instruments(result)[2][i] IN
           IsDict(ticker) /\ SymbolOf(ticker) = k /\ CodeOf(ticker) = code
\* the code is one that upstream gives for the symbol
FromUpstream(k, code) == \E http \in SearchReplies : Pairs(make_request(http), k, code)

\* C10: under every interleaving of invocations that suspend only at their
\* fetch, the cache maps each symbol to a code that a search reply gave for
\* that symbol: an entry changes only in the step that ends a search, to the
\* code of the last instrument of that reply with the symbol (the reply
\* processed last wins); and get_stock_info and get_stock_history take, in
\* the step that calls them, the code the cache holds for the symbol.
C10_LastWriteWins ==
    /\ [](\A k \in DOMAIN STOCKS_CACHE : FromUpstream(k, STOCKS_CACHE[k]))
    /\ [](\A t \in Tasks :
              task[t].pc \in {"info", "history"} =>
                  FromUpstream(Str(task[t].symbol), task[t].instrument_code))
    /\ [][\A t \in Tasks :
              /\ SearchEnds(t) =>
                     \A k \in DOMAIN STOCKS_CACHE' :
                         IF HasInstruments(ret'.result) /\ k \in Supplied(ret'.result)
                         THEN /\ STOCKS_CACHE'[k] = LastCode(ret'.result, k)
                              /\ Pairs(ret'.result, k, STOCKS_CACHE'[k])
                         ELSE k \in DOMAIN STOCKS_CACHE /\ STOCKS_CACHE'[k] = STOCKS_CACHE[k]
              /\ (task[t].pc = "idle" /\ task'[t].pc \in {"info", "history"}) =>
                     /\ Str(task'[t].symbol) \in DOMAIN STOCKS_CACHE
                     /\ task'[t].instrument_code = STOCKS_CACHE[Str(task'[t].symbol)]
         ]_vars

\* a search that ran while get_stock_info awaited its fetch replaced the code
\* that get_stock_info had read
C10_Witness ==
    /\ SearchReturned
    /\ Success
    /\ \E t \in Tasks :
           /\ task[t].pc = "info"
           /\ Str(task[t].symbol) \in DOMAIN STOCKS_CACHE
           /\ task[t].instrument_code # STOCKS_CACHE[Str(task[t].symbol)]
    /\ \E t \in Tasks : task[t].pc = "search"

====
